---- MODULE Spec2Model ----
(***************************************************************************)
(* Voice assistant: the Streamlit session controller (src/app.py) and the  *)
(* FastAPI orchestration service (src/main.py).                            *)
(*                                                                         *)
(* Text is a sequence of one-character strings, a byte string a sequence   *)
(* of numbers 0..255.  Python's None is the one-element sequence None      *)
(* (for text) or NoneBytes (for byte strings); neither is a text or a byte *)
(* string.                                                                 *)
(***************************************************************************)
EXTENDS Integers, Sequences, FiniteSets, TLC

VARIABLES
    \* st.session_state (src/app.py 14-21)
    conversation_history, messages, processing, last_audio_bytes,
    \* widget values and locals of the running script
    recorder, user_input, transcript, ai_response, audio_data, pc,
    \* the clip the recorder delivered to the previous script run
    presented,
    \* what the running script has shown and played so far, and the provider
    \* capabilities called in its current turn
    ui, played, calls,
    \* the orchestration service: the last request a direct caller made (its
    \* endpoint, its body and whether a provider call raised in it) and the
    \* response it got, the last message list handed to the language-model
    \* provider, and the number of scratch files still on disk
    served, resp, provider_in, scratch_files,
    \* the service process: the two credentials it read from its environment
    \* and whether it is still loading, serving or has exited
    DEEPGRAM_API_KEY, GROQ_API_KEY, process

sessionVars == <<conversation_history, messages, processing, last_audio_bytes>>
scriptVars ==
    <<recorder, user_input, transcript, ai_response, audio_data, pc, presented>>
pageVars == <<ui, played, calls>>
clientVars == <<sessionVars, scriptVars, pageVars>>
envVars == <<DEEPGRAM_API_KEY, GROQ_API_KEY, process>>
serverVars == <<served, resp, provider_in, scratch_files, envVars>>
vars == <<clientVars, serverVars>>

----------------------------------------------------------------------------
\* Bounds of the model

\* longest client conversation_history the model lets a script run extend
MaxLen == 13
\* longest conversation_history a direct caller of /chat supplies
MaxHist == 8
\* the scratch files left behind are counted up to this number
MaxScratch == 1

\* Program constants
HistoryCap == 6
ClientHistoryCap == 10

----------------------------------------------------------------------------
\* Python values

None == <<"None">>
NoneBytes == <<-1>>

\* bool(x) of a str or None
Truthy(x) == x # None /\ Len(x) > 0
\* bool(b) of a bytes or None
TruthyBytes(b) == b # NoneBytes /\ Len(b) > 0

Whitespace == {" "}

RECURSIVE LStrip(_)
LStrip(s) == IF s # <<>> /\ Head(s) \in Whitespace THEN LStrip(Tail(s)) ELSE s

RECURSIVE RStrip(_)
RStrip(s) ==
    IF s # <<>> /\ s[Len(s)] \in Whitespace
    THEN RStrip(SubSeq(s, 1, Len(s) - 1))
    ELSE s

\* str.strip()
Strip(s) == RStrip(LStrip(s))

\* seq[-n:]
LastN(s, n) == IF Len(s) > n THEN SubSeq(s, Len(s) - n + 1, Len(s)) ELSE s

\* base64: a byte string to a sequence of sextets 0..63, Pad for "="
Pad == 64

RECURSIVE b64encode(_)
b64encode(bs) ==
    IF Len(bs) = 0 THEN <<>>
    ELSE IF Len(bs) = 1 THEN
        <<bs[1] \div 4, (bs[1] % 4) * 16, Pad, Pad>>
    ELSE IF Len(bs) = 2 THEN
        <<bs[1] \div 4, (bs[1] % 4) * 16 + bs[2] \div 16, (bs[2] % 16) * 4, Pad>>
    ELSE
        <<bs[1] \div 4, (bs[1] % 4) * 16 + bs[2] \div 16,
          (bs[2] % 16) * 4 + bs[3] \div 64, bs[3] % 64>>
        \o b64encode(SubSeq(bs, 4, Len(bs)))

RECURSIVE b64decode(_)
b64decode(cs) ==
    IF Len(cs) < 4 THEN <<>>
    ELSE
        LET b1 == cs[1] * 4 + cs[2] \div 16
            b2 == (cs[2] % 16) * 16 + cs[3] \div 4
            b3 == (cs[3] % 4) * 64 + cs[4]
        IN  IF cs[3] = Pad THEN <<b1>>
            ELSE IF cs[4] = Pad THEN <<b1, b2>>
            ELSE <<b1, b2, b3>> \o b64decode(SubSeq(cs, 5, Len(cs)))

----------------------------------------------------------------------------
\* Inputs and provider outcomes

\* recordings the audio recorder widget can deliver
Audio == {<<82, 73>>, <<82, 73, 70>>}
\* what the chat input can deliver
TypedTexts == {<<>>, <<"h", "i">>}
\* transcripts the speech-to-text provider can return
Transcripts == {<<>>, <<" ">>, <<"h", "i">>}
\* message.content the language-model provider can return
Replies == {None, <<>>, <<" ">>, <<"o", "k">>}
\* what the speech provider can write to the scratch file
Mp3s == {<<>>, <<73, 68, 51>>}

Raise == [raises |-> TRUE, err |-> "upstream"]
Return(v) == [raises |-> FALSE, value |-> v]

SttOutcomes == {Raise} \cup {Return(t) : t \in Transcripts}
LlmOutcomes == {Raise} \cup {Return(r) : r \in Replies}
TtsOutcomes == {Raise} \cup {Return(b) : b \in Mp3s}

\* requests.post: the request reaches the service and its response comes
\* back, or requests raises (connection error, timeout)
Net == {"ok", "fail"}

----------------------------------------------------------------------------
\* Orchestration service (src/main.py)

SystemPrompt == [role |-> "system", content |-> "chat-system-instruction"]
VoiceSystemPrompt == [role |-> "system", content |-> "voice-system-instruction"]
UserEntry(text) == [role |-> "user", content |-> text]
AssistantEntry(text) == [role |-> "assistant", content |-> text]

\* the failure reported as /test-tts reports it, in a 200 payload
HTTPException500_AsPayload(e) == [status |-> 200, success |-> FALSE, error |-> e]

\* raise HTTPException(status_code=500, detail=f"Error: {str(e)}")
HTTPException500(e) == [status |-> 500, detail |-> <<"Error: ", e>>]

\* GET /: its response
root ==
    [status |-> 200, message |-> "Voice Bot API is running",
     deepgram_connected |-> Truthy(DEEPGRAM_API_KEY),
     groq_connected |-> Truthy(GROQ_API_KEY)]

\* POST /speech-to-text: its response
speech_to_text_endpoint(audio, dg) ==
    IF dg.raises THEN HTTPException500(dg.err)
    ELSE [status |-> 200, transcript |-> dg.value, success |-> TRUE]

\* recent_history without the cap
recent_history_Uncapped(history) == history

\* recent_history with the first entries kept instead of the last
recent_history_Prefix(history) ==
    IF Len(history) > HistoryCap THEN SubSeq(history, 1, HistoryCap) ELSE history

\* recent_history of /chat
recent_history(history) ==
    IF Len(history) > HistoryCap THEN LastN(history, HistoryCap) ELSE history

\* the messages list /chat hands to the language-model provider
chat_messages(request) ==
    <<SystemPrompt>> \o recent_history(request.conversation_history)
        \o <<UserEntry(request.message)>>

\* POST /chat: its response
chat(request, groq) ==
    IF groq.raises THEN HTTPException500(groq.err)
    ELSE [status |-> 200, response |-> groq.value, success |-> TRUE]

\* POST /chat: the provider call
ChatCall(request) ==
    /\ provider_in' = chat_messages(request)
    /\ UNCHANGED scratch_files

\* the scratch file of one synthesis call: created, written by the provider,
\* read back and removed; a raise of the provider skips the removal.  The
\* files left behind are counted up to MaxScratch.
Synthesize(dg) ==
    scratch_files' =
        IF dg.raises /\ scratch_files < MaxScratch
        THEN scratch_files + 1
        ELSE scratch_files

\* POST /text-to-speech: its response
text_to_speech_endpoint(request, dg) ==
    IF dg.raises THEN HTTPException500(dg.err)
    ELSE [status |-> 200, audio |-> b64encode(dg.value),
          mime_type |-> "audio/mpeg", success |-> TRUE]

\* POST /text-to-speech: the provider call
SpeakCall(dg) ==
    /\ Synthesize(dg)
    /\ UNCHANGED provider_in

\* POST /voice: its response; the providers are called in turn, a later one
\* only if the earlier ones returned
voice_bot(audio, dgStt, groq, dgTts) ==
    IF dgStt.raises THEN HTTPException500(dgStt.err)
    ELSE IF groq.raises THEN HTTPException500(groq.err)
    ELSE IF dgTts.raises THEN HTTPException500(dgTts.err)
    ELSE [status |-> 200, user_text |-> dgStt.value, bot_text |-> groq.value,
          bot_audio |-> b64encode(dgTts.value), audio_mime |-> "audio/mpeg",
          success |-> TRUE]

\* VoiceCalls with the messages of the request before kept as history
VoiceCalls_KeepsHistory(dgStt, groq, dgTts) ==
    IF dgStt.raises THEN UNCHANGED <<provider_in, scratch_files>>
    ELSE /\ provider_in' =
                <<VoiceSystemPrompt>> \o SubSeq(provider_in, 2, Len(provider_in))
                    \o <<UserEntry(dgStt.value)>>
         /\ IF groq.raises THEN UNCHANGED scratch_files ELSE Synthesize(dgTts)

\* POST /voice: the provider calls
VoiceCalls(dgStt, groq, dgTts) ==
    IF dgStt.raises THEN UNCHANGED <<provider_in, scratch_files>>
    ELSE /\ provider_in' = <<VoiceSystemPrompt, UserEntry(dgStt.value)>>
         /\ IF groq.raises THEN UNCHANGED scratch_files ELSE Synthesize(dgTts)

\* GET /test-tts: its response
test_tts(dg) ==
    IF dg.raises THEN [status |-> 200, success |-> FALSE, error |-> dg.err]
    ELSE [status |-> 200, success |-> TRUE, audio_size |-> Len(dg.value)]

----------------------------------------------------------------------------
\* Direct callers of the service

RECURSIVE Rep(_)
Rep(n) == IF n = 0 THEN <<>> ELSE <<"m">> \o Rep(n - 1)

\* the i-th entry of a caller's history: roles alternate, every content differs
CallerEntry(i) ==
    [role |-> IF i % 2 = 1 THEN "user" ELSE "assistant", content |-> Rep(i)]
CallerHistories == {[i \in 1..n |-> CallerEntry(i)] : n \in 0..MaxHist}
CallerMessages == {<<"h", "i">>}
CallerTexts == {<<"o", "k">>}

\* a direct caller's request is served, by a process that is serving
Serve(endpoint, body, raised, response) ==
    /\ process = "serving"
    /\ served' = [endpoint |-> endpoint, body |-> body, raised |-> raised]
    /\ resp' = response
    /\ UNCHANGED <<clientVars, envVars>>

ApiRoot ==
    /\ Serve("/", <<>>, FALSE, root)
    /\ UNCHANGED <<provider_in, scratch_files>>

ApiSpeechToText ==
    \E audio \in Audio, dg \in SttOutcomes :
        /\ Serve("/speech-to-text", audio, dg.raises,
                 speech_to_text_endpoint(audio, dg))
        /\ UNCHANGED <<provider_in, scratch_files>>

ApiChat ==
    \E m \in CallerMessages, h \in CallerHistories, groq \in LlmOutcomes :
        LET request == [message |-> m, conversation_history |-> h]
        IN  /\ Serve("/chat", request, groq.raises, chat(request, groq))
            /\ ChatCall(request)

ApiTextToSpeech ==
    \E t \in CallerTexts, dg \in TtsOutcomes :
        /\ Serve("/text-to-speech", [text |-> t], dg.raises,
                 text_to_speech_endpoint([text |-> t], dg))
        /\ SpeakCall(dg)

ApiVoice ==
    \E audio \in Audio, dgStt \in SttOutcomes, groq \in LlmOutcomes,
       dgTts \in TtsOutcomes :
        /\ Serve("/voice", audio, dgStt.raises \/ groq.raises \/ dgTts.raises,
                 voice_bot(audio, dgStt, groq, dgTts))
        /\ VoiceCalls(dgStt, groq, dgTts)

ApiTestTts ==
    \E dg \in TtsOutcomes :
        /\ Serve("/test-tts", <<>>, dg.raises, test_tts(dg))
        /\ Synthesize(dg)
        /\ UNCHANGED provider_in

----------------------------------------------------------------------------
\* Session controller (src/app.py)

\* what the page can show during a script run
NetworkError == "Error: "
SttError == "Speech-to-text error: "
ChatError == "Chat error: "
TtsError == "Text-to-speech error: "
YouSaid == "You said: "
NoSpeech == "No speech detected. Please try again."
NoAiResponse == "Failed to get AI response"
NoSpeechAudio == "Failed to generate speech audio"
ResponseGenerated == "Response generated!"

\* positions of the script at which a turn is in flight: blocked in the
\* speech-to-text, chat or text-to-speech call of the voice or the text turn
InTurn == {"stt", "chat_v", "tts_v", "chat_t", "tts_t"}

UserMessage(text) == [role |-> "user", content |-> text]
AssistantMessage(text, audio) ==
    [role |-> "assistant", content |-> text, audio |-> audio]

\* what a helper reports with st.error before it returns None
HelperError(net, response, statusError) ==
    IF net # "ok" THEN {NetworkError}
    ELSE IF response.status # 200 THEN {statusError}
    ELSE {}

\* speech_to_text(audio_bytes), given the service's response
speech_to_text(net, response) ==
    IF net = "ok" /\ response.status = 200 THEN response.transcript ELSE None

\* chat_request with the history as it was before the current user turn
chat_request_BeforeUserTurn(message) ==
    [message |-> message,
     conversation_history |->
         LastN(SubSeq(conversation_history, 1, Len(conversation_history) - 1),
               ClientHistoryCap)]

\* the request body of get_ai_response(message)
chat_request(message) ==
    [message |-> message,
     conversation_history |-> LastN(conversation_history, ClientHistoryCap)]

\* get_ai_response(message), given the service's response
get_ai_response(net, response) ==
    IF net = "ok" /\ response.status = 200 THEN response.response ELSE None

\* text_to_speech(text), given the service's response
text_to_speech(net, response) ==
    IF net = "ok" /\ response.status = 200
    THEN b64decode(response.audio)
    ELSE NoneBytes

\* autoplay_audio(audio_bytes): the base64 source of the autoplaying element
autoplay_audio(audio) == b64encode(audio)

\* the three tests below without strip(), or with "is not None" for truth
TranscriptOk_NoStrip(t) == Truthy(t)
ResponseOk_NoStrip(r) == Truthy(r)
AudioOk_NotNone(a) == a # NoneBytes

\* if transcript and transcript.strip()
TranscriptOk(t) == Truthy(t) /\ Truthy(Strip(t))
\* if ai_response and ai_response.strip()
ResponseOk(r) == Truthy(r) /\ Truthy(Strip(r))
\* if audio_data
AudioOk(a) == TruthyBytes(a)

\* requests.post: the request reaches the service, which makes its provider
\* call, or it is lost on the way
Post(net, call) ==
    /\ IF net = "ok" THEN call ELSE UNCHANGED <<provider_in, scratch_files>>
    /\ UNCHANGED <<served, resp, envVars>>

\* ClearConversation without the reset of last_audio_bytes
ClearConversation_KeepsFingerprint ==
    /\ pc = "idle"
    /\ conversation_history' = <<>>
    /\ messages' = <<>>
    /\ processing' = FALSE
    /\ pc' = "rerun"
    /\ presented' = NoneBytes
    /\ UNCHANGED <<last_audio_bytes, recorder, user_input, transcript,
                   ai_response, audio_data, pageVars, serverVars>>

\* ClearConversation without the reset of conversation_history
ClearConversation_KeepsHistory ==
    /\ pc = "idle"
    /\ messages' = <<>>
    /\ processing' = FALSE
    /\ last_audio_bytes' = NoneBytes
    /\ pc' = "rerun"
    /\ presented' = NoneBytes
    /\ UNCHANGED <<conversation_history, recorder, user_input, transcript,
                   ai_response, audio_data, pageVars, serverVars>>

\* Clear Conversation button
ClearConversation ==
    /\ pc = "idle"
    /\ conversation_history' = <<>>
    /\ messages' = <<>>
    /\ processing' = FALSE
    /\ last_audio_bytes' = NoneBytes
    /\ pc' = "rerun"
    /\ presented' = NoneBytes
    /\ UNCHANGED <<recorder, user_input, transcript, ai_response, audio_data,
                   pageVars, serverVars>>

\* the recorder and the voice input guard: a new recording starts a voice
\* turn, anything else falls through to the text input
VoiceInput(clip) ==
    LET audio_bytes == IF ~processing THEN clip ELSE NoneBytes
    IN  IF /\ TruthyBytes(audio_bytes) /\ ~processing
           /\ last_audio_bytes # audio_bytes
        THEN /\ last_audio_bytes' = audio_bytes
             /\ processing' = TRUE
             /\ calls' = <<"stt">>
             /\ pc' = "stt"
        ELSE /\ calls' = <<>>
             /\ pc' = "text"
             /\ UNCHANGED <<last_audio_bytes, processing>>

\* a script run from the top down to the voice input guard, with the
\* recorder delivering clip and the chat input holding typed
RunScript(clip, typed) ==
    /\ recorder' = clip
    /\ presented' = clip
    /\ user_input' = typed
    /\ transcript' = None
    /\ ai_response' = None
    /\ audio_data' = NoneBytes
    /\ ui' = {}
    /\ played' = <<>>
    /\ VoiceInput(clip)
    /\ UNCHANGED <<conversation_history, messages, serverVars>>

\* one script run appends at most two turns of two entries
Room == Len(conversation_history) + 2 * 2 <= MaxLen

\* the user records a new clip
RecordAudio ==
    /\ pc = "idle" /\ Room
    /\ \E clip \in Audio \ {recorder} : RunScript(clip, None)

\* the user submits the chat input; the recorder delivers its last clip again
SubmitText ==
    /\ pc = "idle" /\ Room
    /\ \E typed \in TypedTexts : RunScript(recorder, typed)

\* a rerun with no new input (st.rerun(), or any other re-render of the
\* page); the recorder delivers its last clip again
Rerender ==
    /\ \/ pc = "rerun"
       \/ pc = "idle" /\ Room
    /\ RunScript(recorder, None)

\* the script reaches its last line: its locals are gone, and the page waits
\* for the next event
ScriptEnds ==
    /\ pc' = "idle"
    /\ user_input' = None
    /\ transcript' = None
    /\ ai_response' = None
    /\ audio_data' = NoneBytes
    /\ ui' = {}
    /\ played' = <<>>
    /\ calls' = <<>>

\* the chat input and the text input guard: a typed message starts a text
\* turn and its chat call, otherwise the script runs to its end
TextInput ==
    /\ pc = "text"
    /\ LET typed == IF ~processing THEN user_input ELSE None
       IN  IF Truthy(typed)
           THEN /\ processing' = TRUE
                /\ messages' = Append(messages, UserMessage(typed))
                /\ conversation_history' =
                       Append(conversation_history, UserEntry(typed))
                /\ calls' = <<"chat">>
                /\ pc' = "chat_t"
                /\ UNCHANGED <<user_input, transcript, ai_response,
                               audio_data, ui, played>>
           ELSE /\ ScriptEnds
                /\ UNCHANGED <<processing, messages, conversation_history>>
    /\ UNCHANGED <<last_audio_bytes, recorder, presented, serverVars>>

\* the script ends after a text turn that was given up
EndScript ==
    /\ pc = "end"
    /\ ScriptEnds
    /\ UNCHANGED <<sessionVars, recorder, presented, serverVars>>

\* VoiceUserTurn without the two appends
VoiceUserTurn_NoAppend(t) ==
    /\ ui' = ui \cup {YouSaid}
    /\ calls' = Append(calls, "chat")
    /\ pc' = "chat_v"
    /\ UNCHANGED <<messages, conversation_history, processing,
                   last_audio_bytes>>

\* voice turn, transcript accepted: the user turn is appended and the chat
\* call issued
VoiceUserTurn(t) ==
    /\ ui' = ui \cup {YouSaid}
    /\ messages' = Append(messages, UserMessage(t))
    /\ conversation_history' = Append(conversation_history, UserEntry(t))
    /\ calls' = Append(calls, "chat")
    /\ pc' = "chat_v"
    /\ UNCHANGED <<processing, last_audio_bytes>>

\* voice turn, no transcript
NoSpeechDetected(errors) ==
    /\ ui' = ui \cup errors \cup {NoSpeech}
    /\ processing' = FALSE
    /\ last_audio_bytes' = NoneBytes
    /\ pc' = "text"
    /\ UNCHANGED <<messages, conversation_history, calls>>

\* voice turn: speech_to_text returns
VoiceSttReturn ==
    /\ pc = "stt"
    /\ \E net \in Net, dg \in SttOutcomes :
        /\ Post(net, UNCHANGED <<provider_in, scratch_files>>)
        /\ LET response == speech_to_text_endpoint(recorder, dg)
               t == speech_to_text(net, response)
           IN  /\ transcript' = t
               /\ IF TranscriptOk(t)
                  THEN VoiceUserTurn(t)
                  ELSE NoSpeechDetected(HelperError(net, response, SttError))
    /\ UNCHANGED <<recorder, presented, user_input, ai_response, audio_data,
                   played>>

\* voice turn, reply accepted: the text-to-speech call is issued
VoiceReply ==
    /\ calls' = Append(calls, "tts")
    /\ pc' = "tts_v"
    /\ UNCHANGED <<ui, processing>>

\* VoiceAiResponseFailed without its reset of the processing flag
VoiceAiResponseFailed_KeepsProcessing(errors) ==
    /\ ui' = ui \cup errors \cup {NoAiResponse}
    /\ pc' = "text"
    /\ UNCHANGED <<processing, calls>>

\* VoiceAiResponseFailed with the chat call tried again
VoiceAiResponseFailed_Retries(errors) ==
    /\ ui' = ui \cup errors \cup {NoAiResponse}
    /\ calls' = Append(calls, "chat")
    /\ pc' = "chat_v"
    /\ UNCHANGED processing

\* voice turn, no reply
VoiceAiResponseFailed(errors) ==
    /\ ui' = ui \cup errors \cup {NoAiResponse}
    /\ processing' = FALSE
    /\ pc' = "text"
    /\ UNCHANGED calls

\* voice turn: get_ai_response returns
VoiceChatReturn ==
    /\ pc = "chat_v"
    /\ \E net \in Net, groq \in LlmOutcomes :
        /\ Post(net, ChatCall(chat_request(transcript)))
        /\ LET response == chat(chat_request(transcript), groq)
               r == get_ai_response(net, response)
           IN  /\ ai_response' = r
               /\ IF ResponseOk(r)
                  THEN VoiceReply
                  ELSE VoiceAiResponseFailed(HelperError(net, response, ChatError))
    /\ UNCHANGED <<messages, conversation_history, last_audio_bytes, recorder,
                   presented, user_input, transcript, audio_data, played>>

\* VoiceSuccess without the append to conversation_history
VoiceSuccess_NoHistory(a) ==
    /\ messages' = Append(messages, AssistantMessage(ai_response, a))
    /\ UNCHANGED conversation_history
    /\ ui' = ui \cup {ResponseGenerated}
    /\ played' = autoplay_audio(a)
    /\ processing' = FALSE
    /\ pc' = "rerun"

\* voice turn, audio generated: the assistant turn is appended and played
VoiceSuccess(a) ==
    /\ messages' = Append(messages, AssistantMessage(ai_response, a))
    /\ conversation_history' =
           Append(conversation_history, AssistantEntry(ai_response))
    /\ ui' = ui \cup {ResponseGenerated}
    /\ played' = autoplay_audio(a)
    /\ processing' = FALSE
    /\ pc' = "rerun"

\* voice turn, no audio
VoiceSpeechFailed(errors) ==
    /\ ui' = ui \cup errors \cup {NoSpeechAudio}
    /\ processing' = FALSE
    /\ pc' = "text"
    /\ UNCHANGED <<messages, conversation_history, played>>

\* voice turn: text_to_speech returns
VoiceTtsReturn ==
    /\ pc = "tts_v"
    /\ \E net \in Net, dg \in TtsOutcomes :
        /\ Post(net, SpeakCall(dg))
        /\ LET response == text_to_speech_endpoint([text |-> ai_response], dg)
               a == text_to_speech(net, response)
           IN  /\ audio_data' = a
               /\ IF AudioOk(a)
                  THEN VoiceSuccess(a)
                  ELSE VoiceSpeechFailed(HelperError(net, response, TtsError))
    /\ UNCHANGED <<last_audio_bytes, recorder, presented, user_input,
                   transcript, ai_response, calls>>

\* text turn, reply accepted: the text-to-speech call is issued
TextReply ==
    /\ calls' = Append(calls, "tts")
    /\ pc' = "tts_t"
    /\ UNCHANGED <<ui, processing>>

\* text turn, no reply: the script runs to its end
TextAiResponseFailed(errors) ==
    /\ ui' = ui \cup errors \cup {NoAiResponse}
    /\ processing' = FALSE
    /\ pc' = "end"
    /\ UNCHANGED calls

\* text turn: get_ai_response returns
TextChatReturn ==
    /\ pc = "chat_t"
    /\ \E net \in Net, groq \in LlmOutcomes :
        /\ Post(net, ChatCall(chat_request(user_input)))
        /\ LET response == chat(chat_request(user_input), groq)
               r == get_ai_response(net, response)
           IN  /\ ai_response' = r
               /\ IF ResponseOk(r)
                  THEN TextReply
                  ELSE TextAiResponseFailed(HelperError(net, response, ChatError))
    /\ UNCHANGED <<messages, conversation_history, last_audio_bytes, recorder,
                   presented, user_input, transcript, audio_data, played>>

\* TextSuccess with the assistant turn written over the last turn
TextSuccess_Overwrites(a) ==
    /\ messages' =
           [messages EXCEPT ![Len(messages)] = AssistantMessage(ai_response, a)]
    /\ conversation_history' =
           [conversation_history EXCEPT
                ![Len(conversation_history)] = AssistantEntry(ai_response)]
    /\ ui' = ui \cup {ResponseGenerated}
    /\ played' = autoplay_audio(a)
    /\ processing' = FALSE
    /\ pc' = "rerun"

\* text turn, audio generated: the assistant turn is appended and played
TextSuccess(a) ==
    /\ messages' = Append(messages, AssistantMessage(ai_response, a))
    /\ conversation_history' =
           Append(conversation_history, AssistantEntry(ai_response))
    /\ ui' = ui \cup {ResponseGenerated}
    /\ played' = autoplay_audio(a)
    /\ processing' = FALSE
    /\ pc' = "rerun"

\* TextSpeechFailed without its reset of the processing flag
TextSpeechFailed_KeepsProcessing(errors) ==
    /\ ui' = ui \cup errors \cup {NoSpeechAudio}
    /\ pc' = "end"
    /\ UNCHANGED <<processing, messages, conversation_history, played>>

\* text turn, no audio: the script runs to its end
TextSpeechFailed(errors) ==
    /\ ui' = ui \cup errors \cup {NoSpeechAudio}
    /\ processing' = FALSE
    /\ pc' = "end"
    /\ UNCHANGED <<messages, conversation_history, played>>

\* text turn: text_to_speech returns
TextTtsReturn ==
    /\ pc = "tts_t"
    /\ \E net \in Net, dg \in TtsOutcomes :
        /\ Post(net, SpeakCall(dg))
        /\ LET response == text_to_speech_endpoint([text |-> ai_response], dg)
               a == text_to_speech(net, response)
           IN  /\ audio_data' = a
               /\ IF AudioOk(a)
                  THEN TextSuccess(a)
                  ELSE TextSpeechFailed(HelperError(net, response, TtsError))
    /\ UNCHANGED <<last_audio_bytes, recorder, presented, user_input,
                   transcript, ai_response, calls>>


----------------------------------------------------------------------------
\* Initial state: a fresh session (src/app.py 14-21), a started service

NoResponse == [status |-> 0]

\* what os.getenv can give for a credential: nothing, an empty value, a key
EnvKeys == {None, <<>>, <<"k">>}

\* LoadModule without the check of the credentials
LoadModule_Unchecked ==
    /\ process = "loading"
    /\ process' = "serving"
    /\ UNCHANGED <<clientVars, served, resp, provider_in, scratch_files,
                   DEEPGRAM_API_KEY, GROQ_API_KEY>>

\* module load of the service (src/main.py 17-30): it goes on to serve only
\* with both credentials, and raises RuntimeError otherwise
LoadModule ==
    /\ process = "loading"
    /\ process' =
           IF ~Truthy(DEEPGRAM_API_KEY) \/ ~Truthy(GROQ_API_KEY)
           THEN "exited"
           ELSE "serving"
    /\ UNCHANGED <<clientVars, served, resp, provider_in, scratch_files,
                   DEEPGRAM_API_KEY, GROQ_API_KEY>>

\* a fresh session, no request served yet
Fresh ==
    /\ conversation_history = <<>>
    /\ messages = <<>>
    /\ processing = FALSE
    /\ last_audio_bytes = NoneBytes
    /\ recorder = NoneBytes
    /\ presented = NoneBytes
    /\ user_input = None
    /\ transcript = None
    /\ ai_response = None
    /\ audio_data = NoneBytes
    /\ pc = "idle"
    /\ ui = {}
    /\ played = <<>>
    /\ calls = <<>>
    /\ served = [endpoint |-> "", body |-> <<>>, raised |-> FALSE]
    /\ resp = NoResponse
    /\ provider_in = <<>>
    /\ scratch_files = 0

Init ==
    /\ Fresh
    /\ DEEPGRAM_API_KEY = <<"k">>
    /\ GROQ_API_KEY = <<"k">>
    /\ process = "serving"

\* the service process from its start, in any environment
ProcessInit ==
    /\ Fresh
    /\ DEEPGRAM_API_KEY \in EnvKeys
    /\ GROQ_API_KEY \in EnvKeys
    /\ process = "loading"

ServerNext ==
    \/ ApiRoot
    \/ ApiSpeechToText
    \/ ApiChat
    \/ ApiTextToSpeech
    \/ ApiVoice
    \/ ApiTestTts

ServerSpec == Init /\ [][ServerNext]_vars

ProcessNext == LoadModule \/ ServerNext

ProcessSpec == ProcessInit /\ [][ProcessNext]_vars

\* the session controller, every call of it served by the service
Next ==
    \/ ClearConversation
    \/ RecordAudio
    \/ SubmitText
    \/ Rerender
    \/ TextInput
    \/ EndScript
    \/ VoiceSttReturn
    \/ VoiceChatReturn
    \/ VoiceTtsReturn
    \/ TextChatReturn
    \/ TextTtsReturn

Spec == Init /\ [][Next]_vars

\* every provider call returns or times out
Fairness ==
    /\ WF_vars(TextInput)
    /\ WF_vars(EndScript)
    /\ WF_vars(VoiceSttReturn)
    /\ WF_vars(VoiceChatReturn)
    /\ WF_vars(VoiceTtsReturn)
    /\ WF_vars(TextChatReturn)
    /\ WF_vars(TextTtsReturn)

LiveSpec == Spec /\ Fairness

----------------------------------------------------------------------------
\* Properties

Last(s) == s[Len(s)]
Range(s) == {s[i] : i \in DOMAIN s}

\* a text that is None, empty or whitespace only
Blank(t) == t = None \/ Strip(t) = <<>>
\* a byte string that is None or empty
NoBytes(b) == b = NoneBytes \/ b = <<>>

\* a script run starts: the page was waiting, and the script now stands at
\* the speech-to-text call or at the text input
RunStarts == pc \in {"idle", "rerun"} /\ pc' \in {"stt", "text"}

\* C1: the processing flag is true exactly while a turn is in flight (from
\* the start of the turn to its end), and a turn, voice or typed, starts
\* only in a state in which the flag is false.
C1_OneTurnInFlight ==
    /\ [](processing <=> pc \in InTurn)
    /\ [][(pc \notin InTurn /\ pc' \in InTurn) => (~processing /\ processing')]_vars

C1_Witness == processing /\ pc = "tts_t" /\ Len(messages) > 2

\* C2: every turn that enters Processing returns to Idle, whichever stage
\* ends it, provided every provider call returns or times out.
C2_ProcessingEnds == processing ~> ~processing

C2_Witness ==
    /\ ~processing /\ pc = "end" /\ NoSpeechAudio \in ui
    /\ calls = <<"chat", "tts">>

\* C3: a clip the recorder delivers to two script runs in direct succession
\* is not reprocessed by the second: the second run starts no voice turn and
\* issues no speech-to-text call.
C3_DuplicateNotReprocessed ==
    [][(RunStarts /\ TruthyBytes(presented) /\ recorder' = presented)
        => (pc' # "stt" /\ calls' = <<>>)]_vars

\* C4: the message list /chat hands to the language-model provider holds at
\* most 6 entries of history between the system instruction and the final
\* user message, whatever the length of the history supplied.
C4_ForwardedHistoryCapped ==
    served.endpoint = "/chat" => Len(provider_in) - 2 <= HistoryCap

\* a caller supplied MaxHist > 6 entries and the last 6 were forwarded
C4_Witness ==
    /\ served.endpoint = "/chat"
    /\ Len(provider_in) = HistoryCap + 2
    /\ provider_in[2] = CallerEntry(MaxHist - HistoryCap + 1)

\* C5: when speech_to_text gives no transcript (None, empty or whitespace
\* only), the voice turn ends with the "no speech detected" warning, no chat
\* or synthesis call is made, and messages and conversation_history are what
\* they were when the turn started.
C5_NoSpeechLeavesHistory ==
    /\ [][pc' = "stt" =>
            /\ messages' = messages
            /\ conversation_history' = conversation_history]_vars
    /\ [][(pc = "stt" /\ Blank(transcript')) =>
            /\ NoSpeech \in ui'
            /\ messages' = messages
            /\ conversation_history' = conversation_history
            /\ calls' = <<"stt">>
            /\ pc' = "text"
            /\ ~processing']_vars

C5_Witness ==
    /\ pc = "text" /\ transcript = <<" ">> /\ NoSpeech \in ui
    /\ Len(messages) > 0

\* C6: when get_ai_response gives no reply (None, empty or whitespace only),
\* the turn ends: the user turn of this turn stays the last entry of messages
\* and of conversation_history, no assistant turn is appended and no
\* synthesis call is made.
C6_ChatFailureKeepsUserTurn ==
    [][(pc \in {"chat_v", "chat_t"} /\ Blank(ai_response')) =>
        LET message == IF pc = "chat_v" THEN transcript ELSE user_input
        IN  /\ messages' = messages
            /\ conversation_history' = conversation_history
            /\ Last(messages') = UserMessage(message)
            /\ Last(conversation_history') = UserEntry(message)
            /\ "tts" \notin Range(calls')
            /\ pc' \in {"text", "end"}
            /\ ~processing']_vars

C6_Witness ==
    /\ pc = "end" /\ ai_response = <<" ">> /\ NoAiResponse \in ui
    /\ Last(messages) = UserMessage(user_input)

\* C7: when the reply was accepted and text_to_speech gives no audio (None
\* or empty), the turn ends and the reply is appended to neither messages
\* nor conversation_history: both still end with the user turn.
C7_SynthesisFailureDropsReply ==
    [][(pc \in {"tts_v", "tts_t"} /\ NoBytes(audio_data')) =>
        /\ ~Blank(ai_response)
        /\ messages' = messages
        /\ conversation_history' = conversation_history
        /\ Last(messages').role = "user"
        /\ Last(conversation_history').role = "user"
        /\ played' = <<>>
        /\ pc' \in {"text", "end"}
        /\ ~processing']_vars

C7_Witness ==
    /\ pc = "text" /\ audio_data = <<>> /\ NoSpeechAudio \in ui
    /\ ai_response = <<"o", "k">> /\ Last(messages).role = "user"

\* C8: when text_to_speech gives audio, exactly one assistant turn with the
\* reply and the audio is appended to messages and one assistant entry with
\* the same reply to conversation_history, the audio is played and the flag
\* is reset; audio is played in no other case.
C8_SuccessAppendsAndPlays ==
    /\ [][(pc \in {"tts_v", "tts_t"} /\ ~NoBytes(audio_data')) =>
            /\ messages' =
                   Append(messages, AssistantMessage(ai_response, audio_data'))
            /\ conversation_history' =
                   Append(conversation_history, AssistantEntry(ai_response))
            /\ played' = b64encode(audio_data')
            /\ pc' = "rerun"
            /\ ~processing']_vars
    /\ [](played # <<>> =>
            /\ pc = "rerun"
            /\ Last(messages).role = "assistant"
            /\ b64encode(Last(messages).audio) = played
            /\ Last(conversation_history) = AssistantEntry(Last(messages).content))

C8_Witness ==
    /\ pc = "rerun" /\ played # <<>> /\ ~processing
    /\ Len(messages) = 4 /\ Len(conversation_history) = 4

\* C9: no scratch file of a synthesis call is left behind, whether the
\* provider returned or raised.
C9_NoScratchFileLeft == scratch_files = 0

\* C10: a provider call that raises inside /speech-to-text, /chat,
\* /text-to-speech or /voice gives HTTP 500 with a detail that contains
\* "Error:" and no success field.
C10_ProviderErrorIs500 ==
    (/\ served.endpoint \in {"/speech-to-text", "/chat", "/text-to-speech", "/voice"}
     /\ served.raised)
    => /\ resp.status = 500
       /\ "success" \notin DOMAIN resp
       /\ "detail" \in DOMAIN resp
       /\ \E i \in DOMAIN resp.detail : resp.detail[i] = "Error: "

C10_Witness ==
    /\ served.endpoint = "/voice" /\ served.raised
    /\ resp.status = 500
    /\ provider_in # <<>>

\* a turn is given up: the script leaves the pending call for the text input
\* or for its end
TurnFails == pc \in InTurn /\ pc' \in {"text", "end"}

\* the messages a failure of one stage can show: what its helper reports
\* for a lost request or an error response, and what the pipeline adds
FailureMessages(statusError, added) ==
    UNION {HelperError(net, response, statusError) :
               net \in Net, response \in {root, HTTPException500(Raise.err)}}
        \cup {added}

StageMessages ==
    [stt |-> FailureMessages(SttError, NoSpeech),
     chat |-> FailureMessages(ChatError, NoAiResponse),
     tts |-> FailureMessages(TtsError, NoSpeechAudio)]

\* C11: every message a failing stage of a turn shows identifies that stage:
\* it is a message that a failure of no other stage shows, so that no
\* generic error message is shared between stages.
C11_DistinctFailureMessages ==
    [][TurnFails =>
        \A m \in ui' \ ui :
            \A stage \in DOMAIN StageMessages \ {Last(calls)} :
                m \notin StageMessages[stage]]_vars

\* the provider calls of one turn, in the order the turn can make them
CallOrders ==
    {<<>>, <<"stt">>, <<"stt", "chat">>, <<"stt", "chat", "tts">>,
     <<"chat">>, <<"chat", "tts">>}

\* the pending call returns nothing usable
CallGivesNothing ==
    \/ pc = "stt" /\ Blank(transcript')
    \/ pc \in {"chat_v", "chat_t"} /\ Blank(ai_response')
    \/ pc \in {"tts_v", "tts_t"} /\ NoBytes(audio_data')

\* C12: within one turn each capability is called at most once, in the
\* order speech-to-text, chat, synthesis; chat is called only after a
\* non-blank transcript (or typed text) and synthesis only after a non-blank
\* reply; a call that gives nothing ends the turn with no further call.
C12_SingleAttemptInOrder ==
    /\ [](calls \in CallOrders)
    /\ [][(calls' # calls /\ calls' # <<>>) =>
            \/ /\ calls' = <<"stt">>
               /\ pc \in {"idle", "rerun"}
            \/ /\ calls' = <<"chat">>
               /\ pc = "text" /\ ~Blank(user_input)
            \/ /\ calls' = Append(calls, "chat")
               /\ pc = "stt" /\ ~Blank(transcript')
            \/ /\ calls' = Append(calls, "tts")
               /\ pc \in {"chat_v", "chat_t"} /\ ~Blank(ai_response')]_vars
    /\ [][(pc \in InTurn /\ CallGivesNothing) =>
            (calls' = calls /\ pc' \notin InTurn /\ ~processing')]_vars

C12_Witness ==
    /\ calls = <<"stt", "chat", "tts">> /\ pc = "text"
    /\ NoSpeechAudio \in ui /\ ~processing

\* every assistant entry of s stands directly after a user entry
FollowsUser(s) ==
    \A i \in DOMAIN s :
        s[i].role = "assistant" => (i > 1 /\ s[i - 1].role = "user")

\* C13: in messages and in conversation_history every assistant turn stands
\* directly after a user turn: neither starts with an assistant turn nor
\* holds two assistant turns in a row.
C13_AssistantFollowsUser ==
    FollowsUser(messages) /\ FollowsUser(conversation_history)

\* an unanswered user turn of a failed turn, then an answered one
C13_Witness ==
    /\ Len(messages) >= 3
    /\ messages[1].role = "user" /\ messages[2].role = "user"
    /\ messages[3].role = "assistant"
    /\ conversation_history[3].role = "assistant"

\* the Clear Conversation button is handled: the waiting page goes to the
\* rerun the handler asks for
ResetStep == pc = "idle" /\ pc' = "rerun"

\* C14: Clear Conversation leaves messages and conversation_history empty,
\* processing false and last_audio_bytes None, and the session accepts a
\* new turn afterwards: the flag that both input guards test is false, and
\* a clip the recorder delivers to the next run starts a voice turn.
C14_ResetClearsSession ==
    /\ [][ResetStep =>
            /\ messages' = <<>>
            /\ conversation_history' = <<>>
            /\ ~processing'
            /\ last_audio_bytes' = NoneBytes]_vars
    /\ [][(pc = "rerun" /\ messages = <<>> /\ RunStarts) =>
            IF TruthyBytes(recorder') THEN pc' = "stt" /\ processing'
            ELSE pc' = "text" /\ ~processing']_vars
    /\ []((pc = "idle" /\ messages = <<>>) => (~processing /\ ENABLED SubmitText))

\* the reset of a session that had turns (the chat call of its third entry
\* was made) and a recording
C14_Witness ==
    /\ pc = "rerun" /\ messages = <<>> /\ conversation_history = <<>>
    /\ ~processing /\ last_audio_bytes = NoneBytes
    /\ Len(provider_in) >= 5 /\ TruthyBytes(recorder)

IsPrefix(s, t) == Len(s) <= Len(t) /\ SubSeq(t, 1, Len(s)) = s

\* C15: every step other than a reset leaves messages and
\* conversation_history as they were or longer by appended entries: the old
\* value is a prefix of the new one.
C15_AppendOnly ==
    [][~ResetStep =>
        /\ IsPrefix(messages, messages')
        /\ IsPrefix(conversation_history, conversation_history')]_vars

C15_Witness ==
    /\ Len(conversation_history) >= 5 /\ pc = "rerun"
    /\ Last(conversation_history).role = "assistant"
    /\ conversation_history[Len(conversation_history) - 1].role = "user"
    /\ conversation_history[Len(conversation_history) - 2].role = "user"

\* C16: /voice hands the language-model provider the system instruction and
\* one user message, the transcript, whatever was requested before; its
\* success response has user_text, bot_text, bot_audio and success true and
\* is given only when none of the three provider calls raised.
C16_VoiceIsSingleTurn ==
    /\ [][(served'.endpoint = "/voice" /\ provider_in' # provider_in) =>
            /\ Len(provider_in') = 2
            /\ provider_in'[1] = VoiceSystemPrompt
            /\ provider_in'[2].role = "user"]_vars
    /\ []((served.endpoint = "/voice" /\ resp.status # 500) =>
            /\ ~served.raised
            /\ DOMAIN resp =
                   {"status", "user_text", "bot_text", "bot_audio",
                    "audio_mime", "success"}
            /\ resp.success = TRUE
            /\ provider_in = <<VoiceSystemPrompt, UserEntry(resp.user_text)>>
            /\ \E mp3 \in Mp3s : resp.bot_audio = b64encode(mp3))
    /\ []((served.endpoint = "/voice" /\ served.raised) =>
            "success" \notin DOMAIN resp)

\* a /voice request after a /chat request with a history
C16_Witness ==
    /\ served.endpoint = "/voice" /\ resp.status # 500
    /\ resp.user_text = <<"h", "i">> /\ resp.bot_audio # <<>>
    /\ Len(provider_in) = 2

\* C17: a request is served only by a process that found both credentials
\* when it loaded; the credentials never change, and every GET / reports
\* them as present, whatever was requested in between.
C17_ServesOnlyWithCredentials ==
    /\ []((process = "serving" \/ served.endpoint # "") =>
            (Truthy(DEEPGRAM_API_KEY) /\ Truthy(GROQ_API_KEY)))
    /\ [](process = "exited" => served.endpoint = "")
    /\ [][/\ DEEPGRAM_API_KEY' = DEEPGRAM_API_KEY
          /\ GROQ_API_KEY' = GROQ_API_KEY
          /\ process = "serving" => process' = "serving"]_vars
    /\ [](served.endpoint = "/" =>
            /\ resp.deepgram_connected = Truthy(DEEPGRAM_API_KEY)
            /\ resp.groq_connected = Truthy(GROQ_API_KEY)
            /\ resp.deepgram_connected /\ resp.groq_connected)

\* GET / after requests to other endpoints that reached both providers
C17_Witness ==
    /\ served.endpoint = "/" /\ resp.deepgram_connected /\ resp.groq_connected
    /\ provider_in # <<>> /\ scratch_files > 0

\* the process refused to start for want of one credential
C17_Refused ==
    /\ process = "exited" /\ Truthy(DEEPGRAM_API_KEY) /\ GROQ_API_KEY = <<>>

Min(a, b) == IF a < b THEN a ELSE b

\* C18: the list /chat hands to the language-model provider is the system
\* instruction, then the last min(6, n) entries of the n supplied, in their
\* order, then one user entry with the request's message.
C18_ChatMessagesAreSuffix ==
    served.endpoint = "/chat" =>
        LET history == served.body.conversation_history
            n == Len(history)
            k == Min(HistoryCap, n)
        IN  /\ Len(provider_in) = k + 2
            /\ provider_in[1] = SystemPrompt
            /\ \A i \in 1..k : provider_in[1 + i] = history[n - k + i]
            /\ provider_in[k + 2] = UserEntry(served.body.message)

\* more than 6 entries supplied: the first forwarded entry is not the first
\* supplied
C18_Witness ==
    /\ served.endpoint = "/chat"
    /\ Len(served.body.conversation_history) > HistoryCap
    /\ provider_in[2] # served.body.conversation_history[1]
    /\ Last(provider_in) = UserEntry(served.body.message)

\* the chat call of a turn is pending
ChatPending == pc \in {"chat_v", "chat_t"}
\* the user message of the pending turn
CurrentMessage == IF pc = "chat_v" THEN transcript ELSE user_input

\* C19: the request of every chat call of the session controller carries
\* the last min(10, n) entries of conversation_history, the last of them the
\* current user message, so that the list /chat builds from it ends with
\* the current user message twice; that list is what the provider gets.
C19_CurrentMessageSentTwice ==
    /\ [](ChatPending =>
            LET request == chat_request(CurrentMessage)
                sent == request.conversation_history
                n == Len(conversation_history)
                k == Min(ClientHistoryCap, n)
                list == chat_messages(request)
            IN  /\ request.message = CurrentMessage
                /\ Len(sent) = k
                /\ \A i \in 1..k : sent[i] = conversation_history[n - k + i]
                /\ k > 0 /\ sent[k] = UserEntry(CurrentMessage)
                /\ list[Len(list)] = UserEntry(CurrentMessage)
                /\ list[Len(list) - 1] = UserEntry(CurrentMessage))
    /\ [][ChatPending =>
            provider_in' \in
                {provider_in, chat_messages(chat_request(CurrentMessage))}]_vars

\* a chat call with more than 10 entries of history was served
C19_Witness ==
    /\ pc = "tts_t" /\ Len(conversation_history) > ClientHistoryCap
    /\ Len(provider_in) = HistoryCap + 2
    /\ provider_in[Len(provider_in)] = UserEntry(user_input)
    /\ provider_in[Len(provider_in) - 1] = UserEntry(user_input)

\* a turn of messages as conversation_history holds it
WithoutAudio(m) == [role |-> m.role, content |-> m.content]

\* C20: conversation_history is messages without the audio: the same
\* length, and the same role and content at every position.
C20_HistoryMirrorsMessages ==
    /\ Len(conversation_history) = Len(messages)
    /\ \A i \in DOMAIN messages :
           conversation_history[i] = WithoutAudio(messages[i])

\* after an aborted synthesis, answered turns and an unanswered one
C20_Witness ==
    /\ Len(messages) = 5 /\ messages[5].role = "assistant"
    /\ "audio" \in DOMAIN messages[5] /\ messages[4].role = "user"
    /\ messages[3].role = "user" /\ scratch_files > 0

====
